---- MODULE Spec2Model ----
(***************************************************************************)
(* Clonal grouping engine of changeo: DefineClones.py (groupByGene,        *)
(* indexByIdentity, indexByUnion, filterMissing, distanceClones,           *)
(* collectQueue), Multiprocessing.py (DbData, DbResult, feedDbQueue,       *)
(* processDbQueue) and Receptor.py (parseAllele, Receptor).                *)
(*                                                                         *)
(* Encoding of Python values:                                              *)
(*   - None is the empty tuple <<>> wherever a value may be None;          *)
(*   - a name (allele or gene) is a natural number, a gene call result is  *)
(*     a tuple of names; a string result of the 'first' policy is the      *)
(*     1-tuple of its name;                                                *)
(*   - an integer key component n is the 1-tuple <<n>>;                    *)
(*   - the empty string of an annotation field is <<-1>>;                  *)
(*   - a sequence (junction) is a tuple of one-character strings;          *)
(*   - a dict is the tuple of its items [k, v] in insertion order.         *)
(***************************************************************************)
EXTENDS Integers, Sequences, FiniteSets, TLC

VARIABLES
    db,            \* the rows of the input file, in file order
    mode,          \* --mode: "allele" or "gene"
    action,        \* --act: "first" or "set"
    group_fields,  \* -f: <<>> (None) or the tuple of requested fields
    max_missing,   \* --maxmiss
    model,         \* --model: the name of the distance model
    dist_mat,      \* clone_args['dist_mat']: <<>> (None) or <<name>>, the model's matrix
    clone_index,   \* groupByGene: the preclone index under construction
    rec_count_g,   \* groupByGene: number of rows consumed by the loop
    group_dict,    \* groupByGene: [done, d], d the returned dict once done
    seq_field,     \* --sf: the field holding the target sequence
    distance,      \* --dist: the threshold, a rational [n, d]
    linkage,       \* --link
    w_data,        \* a worker's DbData
    w_result,      \* a worker's DbResult
    w_pc,          \* a worker's position in processDbQueue
    failed,        \* out_args['failed']: whether a fail file is written
    alive,         \* the shared flag alive.value
    data_queue,    \* the work queue
    result_queue,  \* the result queue
    collect_queue, \* the queue of the collector's return value
    group_iter,    \* feedDbQueue: number of items of group_dict already taken
    f_pc,          \* the feeder's position in feedDbQueue
    c_pc,          \* the collector's position in collectQueue
    counts,        \* collectQueue: rec_count, clone_count, pass_count, fail_count
    pass_out,      \* the records written by pass_writer, in write order
    fail_out,      \* the records written by fail_writer, in write order
    writers,       \* the collector: which of pass_writer, fail_writer is not None
    m_pc,          \* the position of manageProcesses
    m_sent         \* manageProcesses: sentinels put on the work queue

args == <<db, mode, action, group_fields, max_missing, seq_field, model, distance, linkage, failed>>
params == <<args, dist_mat>>
groupVars == <<clone_index, rec_count_g, group_dict>>
workVars == <<w_data, w_result, w_pc>>
queueVars == <<data_queue, result_queue, collect_queue>>
collectVars == <<c_pc, counts, pass_out, fail_out, writers>>
pipeVars == <<queueVars, group_iter, f_pc, collectVars, m_pc, m_sent>>
vars == <<params, groupVars, workVars, alive, pipeVars>>

\* What the steps of a worker, of the collector and of manageProcesses leave alone
workerFrame == <<params, groupVars, group_iter, f_pc, collectVars, m_pc, m_sent>>
collectorFrame == <<params, groupVars, workVars, group_iter, f_pc, m_pc, m_sent>>
managerFrame == <<params, groupVars, workVars, alive, group_iter, f_pc, collectVars>>

-----------------------------------------------------------------------------
(* Bounds of the model *)

MaxRecs == 3
MaxMissing == 4
NProc == 2
MaxFileRecs == 2
MaxQueue == 1

None == <<>>
EmptyStr == <<-1>>
NA == <<"NA">>

\* The rows a file may hold: [v_call, j_call, junction, ann].  v_call and
\* j_call are the allele names of the call string in string order.
Row(v, j, junc, a) == [v_call |-> v, j_call |-> j, junction |-> junc, ann |-> a]
GroupRows ==
    {Row(<<1>>, <<1, 3>>, <<"A">>, <<7>>),
     Row(<<3>>, <<3>>, <<"A">>, <<7>>),
     Row(<<3>>, <<1>>, <<"A">>, <<7>>),
     Row(<<3, 1>>, <<1>>, <<"A">>, <<7>>),
     Row(<<1, 2>>, <<3>>, <<"A">>, <<8>>),
     Row(<<1>>, <<1>>, <<"A">>, EmptyStr),
     Row(<<>>, <<1>>, <<"A">>, <<7>>),
     Row(<<1>>, <<>>, <<"C">>, <<7>>),
     Row(<<1>>, <<1>>, NA, <<7>>),
     Row(<<2>>, <<1>>, <<"A", "C">>, None)}

\* Defaults of DefineClones.py (lines 32-41)
default_distance == [n |-> 0, d |-> 1]
default_seq_field == "junction"
default_linkage == "single"
default_max_missing == 0
default_model == "ham"
default_norm == "len"
default_sym == "avg"

\* line 42: the model names the command line accepts
choices_distance_model ==
    {"ham", "aa", "hh_s1f", "hh_s5f", "mk_rs1nf", "mk_rs5nf", "hs1f_compat", "m1n_compat"}

\* changeo.Distance.distance_models: the names the registry of matrices holds
distance_models == choices_distance_model

\* The model names a run may be given: a known one and one of no registry
ModelNames == {"ham", "bogus"}

\* The value of a variable that holds no object yet
NoItem == [none |-> TRUE]

\* The rows of the files given to the workers: junctions of two characters,
\* an absent junction, and a row without a V call
WorkRows ==
    {Row(<<1>>, <<1>>, <<"A", "A">>, None),
     Row(<<1>>, <<1>>, <<"A", "C">>, None),
     Row(<<1>>, <<1>>, <<"C", "C">>, None),
     Row(<<1>>, <<1>>, <<"c", "N">>, None),
     Row(<<1>>, <<1>>, <<"A", "-">>, None),
     Row(<<1>>, <<1>>, NA, None),
     Row(<<>>, <<1>>, <<"A", "A">>, None)}

\* The rows of the files given to the whole pipeline
PipeRows ==
    {Row(<<1>>, <<1>>, <<"A">>, None),
     Row(<<1>>, <<1>>, <<"C">>, None),
     Row(<<1>>, <<1>>, <<"N">>, None),
     Row(<<3>>, <<1>>, <<"A">>, None),
     Row(<<>>, <<1>>, <<"A">>, None),
     Row(<<1>>, <<1>>, NA, None)}

Workers == 1..NProc

-----------------------------------------------------------------------------
(* Generic helpers *)

ToSet(t) == {t[i] : i \in 1..Len(t)}

Perms(S) == {t \in [1..Cardinality(S) -> S] : \A x \in S : \E i \in 1..Cardinality(S) : t[i] = x}

RECURSIVE SortedTuple(_)
SortedTuple(S) ==
    IF S = {} THEN <<>>
    ELSE LET m == CHOOSE x \in S : \A y \in S : x <= y
         IN  <<m>> \o SortedTuple(S \ {m})

RECURSIVE Chain(_)
Chain(ls) == IF ls = <<>> THEN <<>> ELSE Head(ls) \o Chain(Tail(ls))

RemoveAt(s, i) == SubSeq(s, 1, i - 1) \o SubSeq(s, i + 1, Len(s))

(* Python dict, insertion ordered *)
DHas(d, k) == \E i \in 1..Len(d) : d[i].k = k
DIdx(d, k) == CHOOSE i \in 1..Len(d) : d[i].k = k
DGet(d, k) == d[DIdx(d, k)].v
DPut(d, k, v) ==
    IF DHas(d, k) THEN [d EXCEPT ![DIdx(d, k)] = [k |-> k, v |-> v]]
    ELSE Append(d, [k |-> k, v |-> v])
DPop(d, k) == IF DHas(d, k) THEN RemoveAt(d, DIdx(d, k)) ELSE d
DKeys(d) == [i \in 1..Len(d) |-> d[i].k]
DValues(d) == [i \in 1..Len(d) |-> d[i].v]

-----------------------------------------------------------------------------
(* Receptor.py *)

\* Names matched by allele_regex are alleles; gene_regex matches the gene
\* prefix of each allele.  Alleles 1,2 belong to gene 1, alleles 3,4 to 2.
GeneOf(a) == (a + 1) \div 2

\* regex.finditer(alleles): the names found, in string order
RegexFind(alleles, regex) ==
    IF regex = "allele" THEN alleles
    ELSE [i \in 1..Len(alleles) |-> GeneOf(alleles[i])]

\* Faulty variant of parseAllele: 'first' gives the least of the names found
\* instead of the one found first.
parseAlleleLeast(alleles, regex, act) ==
    LET match == RegexFind(alleles, regex)
    IN  IF act = "first" THEN (IF match # <<>> THEN <<SortedTuple(ToSet(match))[1]>> ELSE None)
        ELSE IF act = "set" THEN (IF match # <<>> THEN SortedTuple(ToSet(match)) ELSE None)
        ELSE None

\* lines 706-718; a call that is None makes finditer raise, and match = None
parseAllele(alleles, regex, act) ==
    LET match == RegexFind(alleles, regex)
    IN  IF act = "first" THEN (IF match # <<>> THEN <<match[1]>> ELSE None)
        ELSE IF act = "set" THEN (IF match # <<>> THEN SortedTuple(ToSet(match)) ELSE None)
        ELSE None

\* Receptor._sequence: 'NA', 'None' and a missing column give '', anything
\* else is upper-cased
Upper(c) == IF c = "a" THEN "A" ELSE IF c = "c" THEN "C" ELSE IF c = "n" THEN "N" ELSE c
Sequence_(v) == IF v = NA THEN <<>> ELSE [i \in 1..Len(v) |-> Upper(v[i])]

\* Receptor.__init__ on one row of the file; sequence_id is the row number
Receptor(row, id) ==
    [sequence_id |-> id,
     v_call |-> row.v_call,
     j_call |-> row.j_call,
     junction |-> Sequence_(row.junction),
     ann |-> row.ann]

\* Receptor.getField for the one annotation column of the model
getField(rec, field) == IF field = "ann" THEN rec.ann ELSE None

getVAllele(rec, act) == parseAllele(rec.v_call, "allele", act)
getJAllele(rec, act) == parseAllele(rec.j_call, "allele", act)
getVGene(rec, act) == parseAllele(rec.v_call, "gene", act)
getJGene(rec, act) == parseAllele(rec.j_call, "gene", act)

-----------------------------------------------------------------------------
(* DefineClones.py: preclone grouping *)

\* groupByGene._get_key: [V, J, junction length] + annotation values.
\* Receptor._sequence never yields None, so the length is always an int.
get_key(rec, md, act, fields) ==
    LET vdj == <<(IF md = "allele" THEN getVAllele(rec, act) ELSE getVGene(rec, act)),
                 (IF md = "allele" THEN getJAllele(rec, act) ELSE getJGene(rec, act)),
                 <<Len(rec.junction)>> >>
        ann == [i \in 1..Len(fields) |-> getField(rec, fields[i])]
    IN  vdj \o ann

\* all([k is not None and k != '' for k in key])
KeyPresent(key) == \A i \in 1..Len(key) : key[i] # None /\ key[i] # EmptyStr

\* Faulty variant of indexByIdentity: indexes by V and J only, dropping the
\* junction length and the extra fields from the key.
indexByIdentityVJ(index, key, rec) ==
    DPut(index, SubSeq(key, 1, 2),
         (IF DHas(index, SubSeq(key, 1, 2)) THEN DGet(index, SubSeq(key, 1, 2)) ELSE <<>>)
            \o <<rec>>)

\* index.setdefault(tuple(key), []).append(rec)
indexByIdentity(index, key, rec) ==
    DPut(index, key, (IF DHas(index, key) THEN DGet(index, key) ELSE <<>>) \o <<rec>>)

\* clone_index.setdefault(None, []).append(rec)
indexNone(index, rec) ==
    DPut(index, None, (IF DHas(index, None) THEN DGet(index, None) ELSE <<>>) \o <<rec>>)

\* Faulty variant of f_range: no outer dicts, so that the J and V dicts of
\* all junction lengths and extra-field values are one.
f_rangeNone(key) == <<>>

\* f_range: the positions of the key that index the outer dicts
f_range(key) == [i \in 1..(Len(key) - 2) |-> i + 2]

\* lines 125-131: walk the outer dicts; ok = FALSE stands for outer_dict = None
RECURSIVE OuterGet(_, _, _)
OuterGet(d, key, n) ==
    IF n > Len(f_range(key)) THEN [ok |-> TRUE, d |-> d]
    ELSE IF DHas(d, key[f_range(key)[n]])
         THEN OuterGet(DGet(d, key[f_range(key)[n]]), key, n + 1)
         ELSE [ok |-> FALSE, d |-> <<>>]

\* lines 157-160 followed by the store of `inner` at the innermost level
RECURSIVE OuterPut(_, _, _, _)
OuterPut(d, key, n, inner) ==
    IF n > Len(f_range(key)) THEN inner
    ELSE LET k == key[f_range(key)[n]]
             sub == IF DHas(d, k) THEN DGet(d, k) ELSE <<>>
         IN  DPut(d, k, OuterPut(sub, key, n + 1, inner))

\* lines 135-138: the J keys overlapping the growing key[1]
RECURSIVE JScan(_, _, _, _)
JScan(outer, i, k1, ms) ==
    IF i > Len(outer) THEN [key1 |-> k1, j_matches |-> ms]
    ELSE LET j == outer[i].k
         IN  IF k1 \cap ToSet(j) # {}
             THEN JScan(outer, i + 1, k1 \cup ToSet(j), Append(ms, j))
             ELSE JScan(outer, i + 1, k1, ms)

\* Faulty variant of VScan: a V key matches only when it equals key[0]
\* instead of when it overlaps it.
RECURSIVE VScanExact(_, _, _, _)
VScanExact(vdict, i, k0, ms) ==
    IF i > Len(vdict) THEN [key0 |-> k0, v_matches |-> ms]
    ELSE LET v == vdict[i].k
         IN  IF k0 = ToSet(v)
             THEN VScanExact(vdict, i + 1, k0, Append(ms, v))
             ELSE VScanExact(vdict, i + 1, k0, ms)

\* lines 143-146: the V keys of one J dict overlapping the growing key[0]
RECURSIVE VScan(_, _, _, _)
VScan(vdict, i, k0, ms) ==
    IF i > Len(vdict) THEN [key0 |-> k0, v_matches |-> ms]
    ELSE LET v == vdict[i].k
         IN  IF k0 \cap ToSet(v) # {}
             THEN VScan(vdict, i + 1, k0 \cup ToSet(v), Append(ms, v))
             ELSE VScan(vdict, i + 1, k0, ms)

RECURSIVE PopAll(_, _, _)
PopAll(vdict, vs, n) ==
    IF n > Len(vs) THEN vdict ELSE PopAll(DPop(vdict, vs[n]), vs, n + 1)

\* lines 140-152: for each matching J, pop the matching V entries into val
RECURSIVE JLoop(_, _, _, _, _, _)
JLoop(outer, jm, n, k0, val, vhit) ==
    IF n > Len(jm) THEN [outer |-> outer, key0 |-> k0, val |-> val, vhit |-> vhit]
    ELSE LET j == jm[n]
             vd == DGet(outer, j)
             sc == VScan(vd, 1, k0, <<>>)
             popped == Chain([m \in 1..Len(sc.v_matches) |-> DGet(vd, sc.v_matches[m])])
             vd2 == PopAll(vd, sc.v_matches, 1)
             outer2 == IF sc.v_matches = <<>> THEN outer
                       ELSE IF vd2 = <<>> THEN DPop(outer, j)
                       ELSE DPut(outer, j, vd2)
         IN  JLoop(outer2, jm, n + 1, sc.key0, val \o popped,
                   vhit \/ sc.v_matches # <<>>)

\* The scan part of indexByUnion (lines 120-152)
UnionScan(index, key, rec) ==
    LET og == OuterGet(index, key, 1)
        js == IF og.ok THEN JScan(og.d, 1, ToSet(key[2]), <<>>)
              ELSE [key1 |-> ToSet(key[2]), j_matches |-> <<>>]
        jl == JLoop(og.d, js.j_matches, 1, ToSet(key[1]), <<rec>>, FALSE)
    IN  [ok |-> og.ok, outer |-> jl.outer, val |-> jl.val,
         key1 |-> js.key1, jhit |-> js.j_matches # <<>>,
         key0 |-> jl.key0, vhit |-> jl.vhit]

\* tuple(set(..).union(..)): the order of a tuple built from a set is the
\* set's iteration order, which is any order; a key no union touched keeps
\* the sorted tuple parseAllele built.
TupleOfSet(orig, S, hit) == IF hit THEN Perms(S) ELSE {orig}

\* Faulty variant of indexByUnionAs: stores the new record alone under the
\* merged key, losing the records popped from the entries it merged.
indexByUnionAlone(index, key, rec, t1, t0) ==
    LET sc == UnionScan(index, key, rec)
        outer == IF sc.ok THEN sc.outer ELSE <<>>
        jd == IF DHas(outer, t1)
              THEN DPut(DGet(outer, t1), t0, <<rec>>)
              ELSE <<[k |-> t0, v |-> <<rec>>]>>
        outer2 == DPut(outer, t1, jd)
    IN  OuterPut(index, key, 1, outer2)

\* indexByUnion with the two tuple orders t1 (key[1]) and t0 (key[0]) given
indexByUnionAs(index, key, rec, t1, t0) ==
    LET sc == UnionScan(index, key, rec)
        outer == IF sc.ok THEN sc.outer ELSE <<>>
        jd == IF DHas(outer, t1)
              THEN DPut(DGet(outer, t1), t0, sc.val)
              ELSE <<[k |-> t0, v |-> sc.val]>>
        outer2 == DPut(outer, t1, jd)
    IN  OuterPut(index, key, 1, outer2)

\* indexByUnion: every index the call may leave behind
indexByUnion(index, key, rec) ==
    LET sc == UnionScan(index, key, rec)
    IN  {indexByUnionAs(index, key, rec, t1, t0) :
            t1 \in TupleOfSet(key[2], sc.key1, sc.jhit),
            t0 \in TupleOfSet(key[1], sc.key0, sc.vhit)}

\* One pass of the loop of groupByGene (lines 230-242): every index the
\* insertion of rec may leave behind
GroupInsert(index, rec, md, act, fields) ==
    LET key == get_key(rec, md, act, fields)
    IN  IF KeyPresent(key)
        THEN (IF act = "first" THEN {indexByIdentity(index, key, rec)}
              ELSE indexByUnion(index, key, rec))
        ELSE {indexNone(index, rec)}

\* isinstance(v, dict): a dict is a tuple of items, a list a tuple of Receptors
IsDict(v) == v = <<>> \/ "k" \in DOMAIN v[1]

\* None if None in i[0] else tuple(i[0])
FlatKey(ks) == IF \E i \in 1..Len(ks) : ks[i] = None THEN None ELSE ks

RECURSIVE DictOf(_, _, _)
DictOf(items, n, d) ==
    IF n > Len(items) THEN d
    ELSE DictOf(items, n + 1, DPut(d, FlatKey(items[n].k), items[n].v))

\* groupByGene._flatten_dict (lines 209-218)
RECURSIVE flatten_dict(_, _)
RECURSIVE FlatItems(_, _, _)
FlatItems(d, parent_key, n) ==
    IF n > Len(d) THEN <<>>
    ELSE LET new_key == parent_key \o <<d[n].k>>
             here == IF IsDict(d[n].v) THEN flatten_dict(d[n].v, new_key)
                     ELSE <<[k |-> new_key, v |-> d[n].v]>>
         IN  here \o FlatItems(d, parent_key, n + 1)
flatten_dict(d, parent_key) == DictOf(FlatItems(d, parent_key, 1), 1, <<>>)

\* lines 246-249
GroupResult(index, act) == IF act = "set" THEN flatten_dict(index, <<>>) ELSE index

\* groupByGene as a function of the whole record list: every dict it may return
RECURSIVE GroupIndexes(_, _, _, _, _)
GroupIndexes(recs, n, md, act, fields) ==
    IF n = 0 THEN {<<>>}
    ELSE UNION {GroupInsert(ix, recs[n], md, act, fields) :
                    ix \in GroupIndexes(recs, n - 1, md, act, fields)}
groupByGene(recs, md, act, fields) ==
    {GroupResult(ix, act) : ix \in GroupIndexes(recs, Len(recs), md, act, fields)}

\* reader(db_handle): the Receptors of the file in file order
Reader(rows) == [i \in 1..Len(rows) |-> Receptor(rows[i], i)]

\* The pipeline not started: the state of its variables in the behaviours
\* that run one function on its own
PipeIdle ==
    /\ alive = TRUE
    /\ data_queue = <<>> /\ result_queue = <<>> /\ collect_queue = <<>>
    /\ group_iter = 0
    /\ f_pc = "idle" /\ c_pc = "idle" /\ m_pc = "idle" /\ m_sent = 0
    /\ counts = [rec_count |-> 0, clone_count |-> 0, pass_count |-> 0, fail_count |-> 0]
    /\ pass_out = <<>> /\ fail_out = <<>>
    /\ writers = [pass |-> FALSE, fail |-> FALSE]

-----------------------------------------------------------------------------
(* groupByGene run on its own, one record per step *)

InitGroup ==
    /\ db \in UNION {[1..n -> GroupRows] : n \in 1..MaxRecs}
    /\ mode \in {"allele", "gene"}
    /\ action \in {"first", "set"}
    /\ group_fields \in {None, <<"ann">>}
    /\ max_missing = default_max_missing
    /\ seq_field = default_seq_field
    /\ distance = default_distance
    /\ linkage = default_linkage
    /\ clone_index = <<>>
    /\ rec_count_g = 0
    /\ group_dict = [done |-> FALSE, d |-> <<>>]
    /\ failed = FALSE
    /\ model = default_model /\ dist_mat = None
    /\ w_data = [w \in Workers |-> NoItem]
    /\ w_result = [w \in Workers |-> NoItem]
    /\ w_pc = [w \in Workers |-> "done"]
    /\ PipeIdle

\* for rec in db_iter: ... (lines 230-242)
GroupRecord ==
    /\ ~group_dict.done
    /\ rec_count_g < Len(db)
    /\ rec_count_g' = rec_count_g + 1
    /\ clone_index' \in GroupInsert(clone_index, Reader(db)[rec_count_g + 1],
                                     mode, action, group_fields)
    /\ UNCHANGED <<params, group_dict, workVars, alive, pipeVars>>

\* lines 244-249
GroupReturn ==
    /\ ~group_dict.done
    /\ rec_count_g = Len(db)
    /\ group_dict' = [done |-> TRUE, d |-> GroupResult(clone_index, action)]
    /\ UNCHANGED <<params, clone_index, rec_count_g, workVars, alive, pipeVars>>

NextGroup == GroupRecord \/ GroupReturn

SpecGroup == InitGroup /\ [][NextGroup]_vars

-----------------------------------------------------------------------------
(* Properties of preclone grouping *)

RecIds(list) == {list[i].sequence_id : i \in 1..Len(list)}

\* The partition of the records (by sequence_id) a returned dict describes
PartitionOf(d) == {RecIds(d[i].v) : i \in 1..Len(d)}

\* The items of the returned dict that hold record id
GroupsHolding(d, id) == {i \in 1..Len(d) : id \in RecIds(d[i].v)}

Permuted(recs, p) == [i \in 1..Len(recs) |-> recs[p[i]]]

\* The key groupByGene computes for row i of the file
KeyOfRow(i) == get_key(Reader(db)[i], mode, action, group_fields)

GroupDone == group_dict.done

\* C4: under the set policy the final partition into preclone groups is the
\* same for every permutation of the input record sequence.
C4_PermutationInvariant ==
    (GroupDone /\ action = "set") =>
        \A p \in Perms(1..Len(db)) :
            \A g \in groupByGene(Permuted(Reader(db), p), mode, action, group_fields) :
                PartitionOf(g) = PartitionOf(group_dict.d)

\* Two rows with present keys, equal junction length and extra-field values,
\* whose V-call sets intersect and whose J-call sets intersect
Overlapping(a, b) ==
    /\ KeyPresent(KeyOfRow(a)) /\ KeyPresent(KeyOfRow(b))
    /\ SubSeq(KeyOfRow(a), 3, Len(KeyOfRow(a))) = SubSeq(KeyOfRow(b), 3, Len(KeyOfRow(b)))
    /\ ToSet(KeyOfRow(a)[1]) \cap ToSet(KeyOfRow(b)[1]) # {}
    /\ ToSet(KeyOfRow(a)[2]) \cap ToSet(KeyOfRow(b)[2]) # {}

\* C5: under the set policy two records with equal junction length and extra
\* fields whose V-call sets intersect and whose J-call sets intersect are in
\* the same preclone group, whatever else is inserted around them, and the
\* V-call set of that group's key contains both records' V-call sets.
C5_OverlapSameGroup ==
    (GroupDone /\ action = "set") =>
        \A a, b \in 1..Len(db) :
            Overlapping(a, b) =>
                \E i \in 1..Len(group_dict.d) :
                    /\ {a, b} \subseteq RecIds(group_dict.d[i].v)
                    /\ group_dict.d[i].k # None
                    /\ (ToSet(KeyOfRow(a)[1]) \cup ToSet(KeyOfRow(b)[1]))
                          \subseteq ToSet(group_dict.d[i].k[Len(group_dict.d[i].k)])

\* Witness of C5: three rows grouped under the set policy, the first and the
\* last with different, intersecting V-call sets, merged into one group.
C5_Witness ==
    /\ GroupDone /\ action = "set" /\ Len(db) = 3
    /\ Overlapping(1, 3)
    /\ KeyOfRow(1)[1] # KeyOfRow(3)[1]
    /\ \E i \in 1..Len(group_dict.d) : {1, 3} \subseteq RecIds(group_dict.d[i].v)

\* C6: under the first policy two records whose key components are all
\* present are in the same preclone group iff their keys are equal.
C6_FirstPolicyIdentity ==
    (GroupDone /\ action = "first") =>
        \A a, b \in 1..Len(db) :
            (KeyPresent(KeyOfRow(a)) /\ KeyPresent(KeyOfRow(b))) =>
                ((\E i \in 1..Len(group_dict.d) : {a, b} \subseteq RecIds(group_dict.d[i].v))
                    <=> KeyOfRow(a) = KeyOfRow(b))

\* Witness of C6: extra fields requested; rows 1 and 2 have different call
\* strings with the same first name and share a group, row 3 differs in its
\* key and is in another group.
C6_Witness ==
    /\ GroupDone /\ action = "first" /\ Len(db) = 3 /\ group_fields # None
    /\ db[1].v_call # db[2].v_call
    /\ KeyPresent(KeyOfRow(1)) /\ KeyPresent(KeyOfRow(3))
    /\ KeyOfRow(1) = KeyOfRow(2) /\ KeyOfRow(1) # KeyOfRow(3)
    /\ \E i \in 1..Len(group_dict.d) : {1, 2} \subseteq RecIds(group_dict.d[i].v)
    /\ ~ \E i \in 1..Len(group_dict.d) : {1, 3} \subseteq RecIds(group_dict.d[i].v)

\* A row whose V call, J call or junction is missing or empty
RowIncomplete(row) ==
    \/ row.v_call = <<>>
    \/ row.j_call = <<>>
    \/ row.junction = NA \/ row.junction = <<>>

InNullGroup(d, id) == \E i \in GroupsHolding(d, id) : d[i].k = None
InKeyedGroup(d, id) == \E i \in GroupsHolding(d, id) : d[i].k # None

\* C7: with no extra grouping fields, a record is in the null-key group, and
\* in no keyed group, whenever its V call, J call or junction length is
\* missing or empty, and a record with all three present is never in the
\* null-key group.
C7_NullKeyRouting ==
    (GroupDone /\ group_fields = None) =>
        \A a \in 1..Len(db) :
            /\ RowIncomplete(db[a]) =>
                  (InNullGroup(group_dict.d, a) /\ ~InKeyedGroup(group_dict.d, a))
            /\ ~RowIncomplete(db[a]) => ~InNullGroup(group_dict.d, a)

\* The entries of the set-policy index as (field values, J, V) keys
IndexEntries == flatten_dict(clone_index, <<>>)

\* Two keyed entries under the same junction length and extra-field values
\* whose J-call sets intersect and whose V-call sets intersect
Mergeable(k1, k2) ==
    /\ k1 # None /\ k2 # None
    /\ Len(k1) = Len(k2)
    /\ SubSeq(k1, 1, Len(k1) - 2) = SubSeq(k2, 1, Len(k2) - 2)
    /\ ToSet(k1[Len(k1) - 1]) \cap ToSet(k2[Len(k2) - 1]) # {}
    /\ ToSet(k1[Len(k1)]) \cap ToSet(k2[Len(k2)]) # {}

\* C20: after every insertion the set-policy index is at a merge fixed
\* point: no two distinct entries under the same junction length and extra
\* fields have both intersecting J-call sets and intersecting V-call sets.
C20_MergeFixedPoint ==
    action = "set" =>
        \A i, j \in 1..Len(IndexEntries) :
            i # j => ~Mergeable(IndexEntries[i].k, IndexEntries[j].k)


\* The junction length and extra-field values of the key of row a
ExactPart(a) == SubSeq(KeyOfRow(a), 3, Len(KeyOfRow(a)))

\* Rows a and b have been consumed and one entry of the index holds both
SameEntry(a, b) ==
    \E i \in 1..Len(IndexEntries) : {a, b} \subseteq RecIds(IndexEntries[i].v)

\* C21: under the set policy, after every insertion, two records with
\* present keys whose junction lengths differ or whose extra-field values
\* differ are in different entries of the index, and so in different groups
\* of the returned dict, whatever their V and J call sets.
C21_ExactFieldsSeparate ==
    action = "set" =>
        /\ \A a, b \in 1..rec_count_g :
              (KeyPresent(KeyOfRow(a)) /\ KeyPresent(KeyOfRow(b))
                    /\ ExactPart(a) # ExactPart(b)) => ~SameEntry(a, b)
        /\ GroupDone =>
              \A a, b \in 1..Len(db) :
                  (KeyPresent(KeyOfRow(a)) /\ KeyPresent(KeyOfRow(b))
                        /\ ExactPart(a) # ExactPart(b))
                      => ~ \E i \in 1..Len(group_dict.d) :
                              {a, b} \subseteq RecIds(group_dict.d[i].v)

\* Witness of C21: rows 1 and 2 have intersecting V and J call sets and
\* differ in the extra field only, row 3 has merged with row 1, and rows 1
\* and 2 are in different groups of the returned dict.
C21_Witness ==
    /\ GroupDone /\ action = "set" /\ group_fields # None /\ Len(db) = 3
    /\ KeyPresent(KeyOfRow(1)) /\ KeyPresent(KeyOfRow(2)) /\ KeyPresent(KeyOfRow(3))
    /\ ToSet(KeyOfRow(1)[1]) \cap ToSet(KeyOfRow(2)[1]) # {}
    /\ ToSet(KeyOfRow(1)[2]) \cap ToSet(KeyOfRow(2)[2]) # {}
    /\ ExactPart(1) # ExactPart(2)
    /\ KeyOfRow(1) # KeyOfRow(3)
    /\ \E i \in 1..Len(group_dict.d) : {1, 3} \subseteq RecIds(group_dict.d[i].v)
    /\ ~ \E i \in 1..Len(group_dict.d) : {1, 2} \subseteq RecIds(group_dict.d[i].v)


\* How often record id occurs in the record lists of dict d
Occurrences(d, id) ==
    Cardinality({n \in 1..Len(Chain(DValues(d))) : Chain(DValues(d))[n].sequence_id = id})

\* C25: under either policy, after every pass of the loop the dict
\* groupByGene would return holds every record consumed so far exactly once
\* over all its groups, the null-key group included, and so does the dict it
\* returns for the whole file.
C25_EveryRecordOnce ==
    /\ \A a \in 1..rec_count_g : Occurrences(GroupResult(clone_index, action), a) = 1
    /\ GroupDone => \A a \in 1..Len(db) : Occurrences(group_dict.d, a) = 1

\* Witness of C25: a file of three rows grouped under the set policy, row 2
\* without a complete key, row 3 merged into the entry of row 1 under a
\* grown key, and every row once in the returned dict.
C25_Witness ==
    /\ GroupDone /\ action = "set" /\ Len(db) = 3
    /\ ~KeyPresent(KeyOfRow(2))
    /\ Overlapping(1, 3) /\ KeyOfRow(1) # KeyOfRow(3)
    /\ Len(group_dict.d) = 2
    /\ \A a \in 1..3 : Occurrences(group_dict.d, a) = 1

-----------------------------------------------------------------------------
(* Multiprocessing.py: DbData, DbResult; DefineClones.py: filterMissing *)

\* DbData.__init__
DbData(key, records) ==
    [none |-> FALSE, id |-> key, data |-> records, valid |-> key # None]

\* DbResult.__init__; results and data_fail start as None
DbResult(key, records) ==
    [none |-> FALSE, id |-> key, data |-> records,
     results |-> None, data_pass |-> records, data_fail |-> None,
     valid |-> FALSE, log |-> [CLONED |-> 0, FILTERED |-> 0, CLONES |-> 0]]

\* Receptor.getSeq: the junction is a Seq (or '', made a Seq); a field the
\* record does not have gives None
getSeq(rec, field) ==
    IF field = "junction" THEN [none |-> FALSE, s |-> rec.junction]
    ELSE [none |-> TRUE, s |-> <<>>]

\* str(): the text of a Seq, 'None' for None
Str(x) == IF x.none THEN <<"N", "o", "n", "e">> ELSE x.s

\* len(re.findall(r'[^ACGT]', seq))
RECURSIVE CountMissing(_)
CountMissing(seq) ==
    IF seq = <<>> THEN 0
    ELSE (IF Head(seq) \in {"A", "C", "G", "T"} THEN 0 ELSE 1) + CountMissing(Tail(seq))

\* Faulty variant of _pass: lets a zero-length sequence through.
pass_AnyLength(seq, maxmiss) == CountMissing(seq) <= maxmiss

\* Faulty variant of _pass: fewer than max_missing instead of at most.
pass_Strict(seq, maxmiss) == Len(seq) > 0 /\ CountMissing(seq) < maxmiss

\* filterMissing._pass
pass_(seq, maxmiss) == Len(seq) > 0 /\ CountMissing(seq) <= maxmiss

RECURSIVE Select(_, _, _, _)
Select(recs, field, maxmiss, keep) ==
    IF recs = <<>> THEN <<>>
    ELSE (IF pass_(Str(getSeq(Head(recs), field)), maxmiss) = keep
          THEN <<Head(recs)>> ELSE <<>>)
         \o Select(Tail(recs), field, maxmiss, keep)

\* filterMissing raises at line 78 when data.id is None (iteration over None)
filterMissingRaises(data) == data.id = None

\* filterMissing, when it returns
filterMissing(data, field, maxmiss) ==
    LET dp == Select(data.data, field, maxmiss, TRUE)
        df == Select(data.data, field, maxmiss, FALSE)
    IN  [DbResult(data.id, data.data) EXCEPT
            !.data_pass = dp, !.data_fail = df,
            !.log = [CLONED |-> Len(dp), FILTERED |-> Len(df), CLONES |-> 0]]

-----------------------------------------------------------------------------
(* changeo/Distance.py: calcDistances and formClusters *)

LeqRat(a, b) == a.n * b.d <= b.n * a.d
AddRat(a, b) == [n |-> a.n * b.d + b.n * a.d, d |-> a.d * b.d]
Max2(a, b) == IF a >= b THEN a ELSE b

\* The 'ham' matrix: 0 for equal characters and against the wildcard N
CharDist(a, b) == IF a = b \/ a = "N" \/ b = "N" THEN 0 ELSE 1

CharAt(s, p) == IF p <= Len(s) THEN s[p] ELSE "N"

RECURSIVE SumDist(_, _, _)
SumDist(s, t, p) ==
    IF p = 0 THEN 0 ELSE CharDist(CharAt(s, p), CharAt(t, p)) + SumDist(s, t, p - 1)

RECURSIVE CountDiff(_, _, _)
CountDiff(s, t, p) ==
    IF p = 0 THEN 0
    ELSE (IF CharAt(s, p) # CharAt(t, p) THEN 1 ELSE 0) + CountDiff(s, t, p - 1)

\* One entry of calcDistances for window size 1
PairDist(s, t, sym, norm) ==
    LET L == Max2(Len(s), Len(t))
        dij == SumDist(s, t, L)
        dji == SumDist(t, s, L)
        raw == IF sym = "avg" THEN [n |-> dij + dji, d |-> 2]
               ELSE [n |-> (IF dij <= dji THEN dij ELSE dji), d |-> 1]
        mut == CountDiff(s, t, L)
    IN  IF norm = "len" THEN [n |-> raw.n, d |-> raw.d * L]
        ELSE IF norm = "mut" THEN (IF mut = 0 THEN [n |-> 0, d |-> 1]
                                   ELSE [n |-> raw.n, d |-> raw.d * mut])
        ELSE raw

calcDistances(sequences, sym, norm) ==
    [i \in 1..Len(sequences) |->
        [j \in 1..Len(sequences) |->
            IF i = j THEN [n |-> 0, d |-> 1]
            ELSE PairDist(sequences[i], sequences[j], sym, norm)]]

PairsOf(A, B) == {<<i, j>> : i \in A, j \in B}

RECURSIVE SumOver(_, _)
SumOver(dists, ps) ==
    IF ps = {} THEN [n |-> 0, d |-> 1]
    ELSE LET q == CHOOSE x \in ps : TRUE
         IN  AddRat(dists[q[1]][q[2]], SumOver(dists, ps \ {q}))

\* The distance between two clusters under a linkage
LinkDist(dists, A, B, link) ==
    LET ps == PairsOf(A, B)
        ds == {dists[q[1]][q[2]] : q \in ps}
    IN  IF link = "single" THEN CHOOSE x \in ds : \A y \in ds : LeqRat(x, y)
        ELSE IF link = "complete" THEN CHOOSE x \in ds : \A y \in ds : LeqRat(y, x)
        ELSE LET sm == SumOver(dists, ps) IN [n |-> sm.n, d |-> sm.d * Cardinality(ps)]

MinOf(S) == CHOOSE x \in S : \A y \in S : x <= y

\* Agglomeration: merge the closest two clusters while they are within the threshold
RECURSIVE Agglomerate(_, _, _, _)
Agglomerate(dists, cl, link, thr) ==
    LET prs == {pr \in cl \X cl : MinOf(pr[1]) < MinOf(pr[2])}
    IN  IF prs = {} THEN cl
        ELSE LET best == CHOOSE pr \in prs : \A q \in prs :
                            LeqRat(LinkDist(dists, pr[1], pr[2], link),
                                   LinkDist(dists, q[1], q[2], link))
             IN  IF LeqRat(LinkDist(dists, best[1], best[2], link), thr)
                 THEN Agglomerate(dists, (cl \ {best[1], best[2]}) \cup {best[1] \cup best[2]},
                                  link, thr)
                 ELSE cl

\* formClusters: output[i] is the 1-based id of the cluster of sequence i
formClusters(dists, link, thr) ==
    LET cl == Agglomerate(dists, {{i} : i \in 1..Len(dists)}, link, thr)
        mine(i) == CHOOSE c \in cl : i \in c
    IN  [i \in 1..Len(dists) |->
            Cardinality({c \in cl : MinOf(c) <= MinOf(mine(i))})]

-----------------------------------------------------------------------------
(* DefineClones.py: distanceClones *)

\* re.sub('[\.-]', 'N', str(seq))
GapToN(seq) == [i \in 1..Len(seq) |-> IF seq[i] \in {".", "-"} THEN "N" ELSE seq[i]]

\* lines 288-298: what the loop over data_pass ends with: "raise" (len of
\* None), "none" (a zero-length sequence) or "ok" with seq_map
RECURSIVE SeqMapLoop(_, _, _)
SeqMapLoop(recs, field, seq_map) ==
    IF recs = <<>> THEN [end |-> "ok", seq_map |-> seq_map]
    ELSE LET seq == getSeq(Head(recs), field)
         IN  IF seq.none THEN [end |-> "raise", seq_map |-> <<>>]
             ELSE IF Len(seq.s) = 0 THEN [end |-> "none", seq_map |-> <<>>]
             ELSE LET k == GapToN(Str(seq))
                      old == IF DHas(seq_map, k) THEN DGet(seq_map, k) ELSE <<>>
                  IN  SeqMapLoop(Tail(recs), field, DPut(seq_map, k, old \o <<Head(recs)>>))

\* Faulty variant of CloneDict: stores the records of a sequence over the
\* cluster's list instead of extending it.
RECURSIVE CloneDictOverwrite(_, _, _, _)
CloneDictOverwrite(clusters, seq_map, i, clone_dict) ==
    IF i > Len(clusters) THEN clone_dict
    ELSE CloneDictOverwrite(clusters, seq_map, i + 1,
                            DPut(clone_dict, <<clusters[i]>>, seq_map[i].v))

\* lines 317-319: clone_dict.setdefault(c, []).extend(seq_map[sequences[i]])
RECURSIVE CloneDict(_, _, _, _)
CloneDict(clusters, seq_map, i, clone_dict) ==
    IF i > Len(clusters) THEN clone_dict
    ELSE LET c == <<clusters[i]>>
             old == IF DHas(clone_dict, c) THEN DGet(clone_dict, c) ELSE <<>>
         IN  CloneDict(clusters, seq_map, i + 1, DPut(clone_dict, c, old \o seq_map[i].v))

distanceClonesRaises(result, field) ==
    SeqMapLoop(result.data_pass, field, <<>>).end = "raise"

\* lines 271-285: sys.exit for a model without a matrix (when none was
\* handed in) or without an n-mer length
distanceClonesExits(name, mat) ==
    \/ mat = None /\ name \notin distance_models
    \/ name \notin {"hs1f_compat", "m1n_compat", "aa", "ham", "hh_s1f", "mk_rs1nf"}
                    \cup {"hh_s5f", "mk_rs5nf"}

\* Faulty variant of distanceClones: the single-sequence branch (lines
\* 301-305) returns the result without marking it valid.
distanceClonesUnmarked(result, field, thr, norm, sym, link) ==
    LET lp == SeqMapLoop(result.data_pass, field, <<>>)
        sequences == DKeys(lp.seq_map)
        dists == calcDistances(sequences, sym, norm)
        clusters == formClusters(dists, link, thr)
        clone_dict == CloneDict(clusters, lp.seq_map, 1, <<>>)
    IN  IF lp.end = "none" THEN NoItem
        ELSE IF Len(lp.seq_map) = 1
        THEN [result EXCEPT !.results = <<[k |-> <<1>>, v |-> result.data_pass]>>,
                            !.log.CLONES = 1]
        ELSE IF clone_dict # <<>>
        THEN [result EXCEPT !.results = clone_dict, !.valid = TRUE,
                            !.log.CLONES = Len(clone_dict)]
        ELSE [result EXCEPT !.log.CLONES = 0]

\* Faulty variant of distanceClones: hands formClusters the complement
\* 1 - distance of the threshold (a similarity where a distance is meant).
distanceClonesComplement(result, field, thr, norm, sym, link) ==
    LET lp == SeqMapLoop(result.data_pass, field, <<>>)
        sequences == DKeys(lp.seq_map)
        dists == calcDistances(sequences, sym, norm)
        clusters == formClusters(dists, link, [n |-> thr.d - thr.n, d |-> thr.d])
        clone_dict == CloneDict(clusters, lp.seq_map, 1, <<>>)
    IN  IF lp.end = "none" THEN NoItem
        ELSE IF Len(lp.seq_map) = 1
        THEN [result EXCEPT !.results = <<[k |-> <<1>>, v |-> result.data_pass]>>,
                            !.valid = TRUE, !.log.CLONES = 1]
        ELSE IF clone_dict # <<>>
        THEN [result EXCEPT !.results = clone_dict, !.valid = TRUE,
                            !.log.CLONES = Len(clone_dict)]
        ELSE [result EXCEPT !.log.CLONES = 0]

\* distanceClones, when it returns: None (NoItem) or the updated result
distanceClones(result, field, thr, norm, sym, link) ==
    LET lp == SeqMapLoop(result.data_pass, field, <<>>)
        sequences == DKeys(lp.seq_map)
        dists == calcDistances(sequences, sym, norm)
        clusters == formClusters(dists, link, thr)
        clone_dict == CloneDict(clusters, lp.seq_map, 1, <<>>)
    IN  IF lp.end = "none" THEN NoItem
        ELSE IF Len(lp.seq_map) = 1
        THEN [result EXCEPT !.results = <<[k |-> <<1>>, v |-> result.data_pass]>>,
                            !.valid = TRUE, !.log.CLONES = 1]
        ELSE IF clone_dict # <<>>
        THEN [result EXCEPT !.results = clone_dict, !.valid = TRUE,
                            !.log.CLONES = Len(clone_dict)]
        ELSE [result EXCEPT !.log.CLONES = 0]

-----------------------------------------------------------------------------
(* Multiprocessing.py: the work of processDbQueue on one item (lines 179-184) *)

\* result = filter_func(data, **filter_args); an exception goes to the
\* handler of lines 192-195
WorkerFilter(w) ==
    /\ w_pc[w] = "filter"
    /\ IF filterMissingRaises(w_data[w])
       THEN /\ w_pc' = [w_pc EXCEPT ![w] = "raised"]
            /\ alive' = FALSE
            /\ UNCHANGED w_result
       ELSE /\ w_result' = [w_result EXCEPT ![w] = filterMissing(w_data[w], seq_field, max_missing)]
            /\ w_pc' = [w_pc EXCEPT ![w] = "process"]
            /\ UNCHANGED alive
    /\ UNCHANGED <<w_data, queueVars, workerFrame>>

\* result = process_func(result, **process_args); sys.exit raises SystemExit,
\* which the bare except of lines 192-195 handles like any exception
WorkerProcess(w) ==
    /\ w_pc[w] = "process"
    /\ IF distanceClonesExits(model, dist_mat) \/ distanceClonesRaises(w_result[w], seq_field)
       THEN /\ w_pc' = [w_pc EXCEPT ![w] = "raised"]
            /\ alive' = FALSE
            /\ UNCHANGED w_result
       ELSE /\ w_result' = [w_result EXCEPT ![w] =
                    distanceClones(w_result[w], seq_field, distance, default_norm,
                                   default_sym, linkage)]
            /\ w_pc' = [w_pc EXCEPT ![w] = "put"]
            /\ UNCHANGED alive
    /\ UNCHANGED <<w_data, queueVars, workerFrame>>

-----------------------------------------------------------------------------
(* One worker given one preclone group of a grouped file *)

ItemsOf(d) == {d[i] : i \in 1..Len(d)}

InitWork ==
    /\ db \in UNION {[1..n -> WorkRows] : n \in 1..MaxRecs}
    /\ mode = "gene"
    /\ action = "set"
    /\ group_fields = None
    /\ max_missing \in 0..MaxMissing
    /\ seq_field \in {"junction", "absent"}
    /\ distance \in {[n |-> 0, d |-> 1], [n |-> 1, d |-> 2]}
    /\ linkage \in {"single", "average", "complete"}
    /\ clone_index = <<>>
    /\ rec_count_g = Len(db)
    /\ \E g \in groupByGene(Reader(db), mode, action, group_fields) :
          /\ group_dict = [done |-> TRUE, d |-> g]
          /\ \E it \in ItemsOf(g) :
                w_data = [w \in Workers |-> IF w = 1 THEN DbData(it.k, it.v) ELSE NoItem]
    /\ w_result = [w \in Workers |-> NoItem]
    /\ w_pc = [w \in Workers |-> IF w = 1 THEN "filter" ELSE "done"]
    /\ failed = FALSE
    /\ model = default_model /\ dist_mat = None
    /\ PipeIdle

NextWork ==
    \/ \E w \in Workers : WorkerFilter(w)
    \/ \E w \in Workers : WorkerProcess(w)

SpecWork == InitWork /\ [][NextWork]_vars

-----------------------------------------------------------------------------
(* Properties of the worker's two steps *)

\* The text the filter tests: str(rec.getSeq(seq_field)), which for a field
\* the record lacks is the text 'None'
TargetText(rec) ==
    IF seq_field = "junction" THEN rec.junction ELSE <<"N", "o", "n", "e">>

NonACGT(seq) == Cardinality({p \in 1..Len(seq) : seq[p] \notin {"A", "C", "G", "T"}})

PosIn(list, rec) == CHOOSE i \in 1..Len(list) : list[i] = rec

OrderKept(sub, list) ==
    \A p, q \in 1..Len(sub) : p < q => PosIn(list, sub[p]) < PosIn(list, sub[q])

Filtered(w) == w_pc[w] = "process"

Clustered(w) == w_pc[w] = "put" /\ ~w_result[w].none /\ w_result[w].valid

\* C3: when distanceClones succeeds, the record lists of the clones it
\* returns hold every record of data_pass exactly once and nothing else.
C3_ClonesPartition ==
    \A w \in Workers :
        Clustered(w) =>
            LET members == Chain(DValues(w_result[w].results))
            IN  /\ Len(members) = Len(w_result[w].data_pass)
                /\ ItemsOf(members) = ItemsOf(w_result[w].data_pass)
                /\ \A i, j \in 1..Len(members) : members[i] = members[j] => i = j

\* Witness of C3: three passing records clustered into two clones, one of
\* them made of two different sequences.
C3_Witness ==
    /\ Clustered(1)
    /\ Len(w_result[1].data_pass) = 3
    /\ Len(w_result[1].results) = 2
    /\ \E n \in 1..2 :
          /\ Len(w_result[1].results[n].v) = 2
          /\ w_result[1].results[n].v[1].junction # w_result[1].results[n].v[2].junction

\* The thresholds compared: 0, 1/2 and 1
Thresholds == {[n |-> 0, d |-> 1], [n |-> 1, d |-> 2], [n |-> 1, d |-> 1]}

\* The result distanceClones gives for the worker's filtered group at threshold thr
ClonesAt(w, thr) ==
    distanceClones(filterMissing(w_data[w], seq_field, max_missing), seq_field, thr,
                   default_norm, default_sym, linkage)

NumClones(r) == IF r.valid THEN Len(r.results) ELSE 0

\* Records a and b are in one clone of result r
Together(r, a, b) ==
    r.valid /\ \E n \in 1..Len(r.results) : {a, b} \subseteq ItemsOf(r.results[n].v)

\* The distance matrix of the distinct sequences of the worker's filtered group
DistsOf(w) ==
    calcDistances(DKeys(SeqMapLoop(w_result[w].data_pass, seq_field, <<>>).seq_map),
                  default_sym, default_norm)

\* C19: for a fixed distance matrix and linkage, a larger threshold never
\* gives more clusters, and two sequences clustered together at a threshold
\* stay together at every larger one; the same holds of the clones
\* distanceClones builds from the clusters.
C19_ThresholdMonotone ==
    \A w \in Workers :
        (w_pc[w] = "put" /\ ~w_result[w].none /\ seq_field = "junction") =>
            /\ \A t1, t2 \in Thresholds :
                  LeqRat(t1, t2) =>
                      LET c1 == formClusters(DistsOf(w), linkage, t1)
                          c2 == formClusters(DistsOf(w), linkage, t2)
                      IN  /\ Cardinality(ToSet(c2)) <= Cardinality(ToSet(c1))
                          /\ \A i, j \in 1..Len(c1) : c1[i] = c1[j] => c2[i] = c2[j]
            /\ \A t2 \in Thresholds :
                  LeqRat(distance, t2) =>
                      /\ NumClones(ClonesAt(w, t2)) <= NumClones(w_result[w])
                      /\ \A a, b \in ItemsOf(w_result[w].data_pass) :
                            Together(w_result[w], a, b) => Together(ClonesAt(w, t2), a, b)

\* Witness of C19: three sequences in three clones at threshold 0 under
\* complete linkage, two clones at 1/2 and one clone at 1.
C19_Witness ==
    /\ Clustered(1) /\ linkage = "complete" /\ distance = [n |-> 0, d |-> 1]
    /\ Len(w_result[1].results) = 3
    /\ NumClones(ClonesAt(1, [n |-> 1, d |-> 2])) = 2
    /\ NumClones(ClonesAt(1, [n |-> 1, d |-> 1])) = 1

\* A worker is through with a keyed group: its result is ready or it raised
Worked(w) == w_pc[w] \in {"put", "raised"} /\ w_data[w].id # None

\* All records of the worker's group have the same target sequence
OneSequence(w) ==
    \A i, j \in 1..Len(w_data[w].data) :
        TargetText(w_data[w].data[i]) = TargetText(w_data[w].data[j])

\* The worker's result is one clone holding every record of its group
OneCloneOfAll(w) ==
    /\ Clustered(w)
    /\ Len(w_result[w].results) = 1
    /\ Len(w_result[w].results[1].v) = Len(w_data[w].data)
    /\ ItemsOf(w_result[w].results[1].v) = ItemsOf(w_data[w].data)

\* C12 as stated: a group whose records all share one identical target
\* sequence yields exactly one clone holding every record of the group, for
\* every threshold, linkage and max_missing.
C12_IdenticalOneClone ==
    \A w \in Workers : (Worked(w) /\ OneSequence(w)) => OneCloneOfAll(w)

\* The shared target sequence passes the quality filter: the field is there,
\* the sequence is non-empty and has at most max_missing non-ACGT characters
SharedPasses(w) ==
    /\ seq_field = "junction"
    /\ Len(w_data[w].data[1].junction) > 0
    /\ NonACGT(w_data[w].data[1].junction) <= max_missing

\* C12 amended: a group whose records all share one identical target
\* sequence yields exactly one clone holding every record when that
\* sequence passes the quality filter, and no clone at all when it does not.
C12_IdenticalPassingOneClone ==
    \A w \in Workers :
        (Worked(w) /\ OneSequence(w)) =>
            IF SharedPasses(w) THEN OneCloneOfAll(w) ELSE ~Clustered(w)

\* Witness of C12: three records sharing a junction with one N, clustered
\* with max_missing = 1 under complete linkage into one clone of three.
C12_Witness ==
    /\ Worked(1) /\ OneSequence(1) /\ SharedPasses(1)
    /\ Len(w_data[1].data) = 3
    /\ NonACGT(w_data[1].data[1].junction) = 1 /\ max_missing = 1
    /\ linkage = "complete"
    /\ OneCloneOfAll(1)

-----------------------------------------------------------------------------
(* Multiprocessing.py: feedDbQueue *)

\* lines 115-126: open the file and group its records
FeederOpen ==
    /\ f_pc = "open"
    /\ \E g \in groupByGene(Reader(db), mode, action, group_fields) :
          group_dict' = [done |-> TRUE, d |-> g]
    /\ rec_count_g' = Len(db)
    /\ group_iter' = 0
    /\ f_pc' = "loop"
    /\ UNCHANGED <<params, clone_index, workVars, alive, queueVars, collectVars, m_pc, m_sent>>

\* line 131: while alive.value; the else branch returns (lines 140-143)
FeederLoop ==
    /\ f_pc = "loop"
    /\ f_pc' = IF alive THEN "next" ELSE "aborted"
    /\ UNCHANGED <<params, groupVars, workVars, alive, queueVars, group_iter, collectVars, m_pc, m_sent>>

\* lines 133-139: skip a full queue, stop at the end of the groups, else feed
FeederNext ==
    /\ f_pc = "next"
    /\ IF Len(data_queue) >= MaxQueue
       THEN f_pc' = "loop" /\ UNCHANGED <<data_queue, group_iter>>
       ELSE IF group_iter >= Len(group_dict.d)
       THEN f_pc' = "done" /\ UNCHANGED <<data_queue, group_iter>>
       ELSE /\ data_queue' = Append(data_queue,
                    DbData(group_dict.d[group_iter + 1].k, group_dict.d[group_iter + 1].v))
            /\ group_iter' = group_iter + 1
            /\ f_pc' = "loop"
    /\ UNCHANGED <<params, groupVars, workVars, alive, result_queue, collect_queue, collectVars, m_pc, m_sent>>

-----------------------------------------------------------------------------
(* Multiprocessing.py: processDbQueue *)

\* line 172: while alive.value; the else branch returns (lines 188-191)
WorkerLoop(w) ==
    /\ w_pc[w] = "loop"
    /\ w_pc' = [w_pc EXCEPT ![w] = IF alive THEN "empty" ELSE "aborted"]
    /\ UNCHANGED <<w_data, w_result, alive, queueVars, workerFrame>>

\* line 174: if data_queue.empty(): continue
WorkerEmpty(w) ==
    /\ w_pc[w] = "empty"
    /\ w_pc' = [w_pc EXCEPT ![w] = IF data_queue = <<>> THEN "loop" ELSE "get"]
    /\ UNCHANGED <<w_data, w_result, alive, queueVars, workerFrame>>

\* Faulty variant of WorkerGet: a worker that takes the sentinel goes on
\* polling the work queue.
WorkerGetOn(w) ==
    /\ w_pc[w] = "get"
    /\ data_queue # <<>>
    /\ data_queue' = Tail(data_queue)
    /\ IF Head(data_queue).none
       THEN w_pc' = [w_pc EXCEPT ![w] = "loop"] /\ UNCHANGED w_data
       ELSE /\ w_pc' = [w_pc EXCEPT ![w] = "filter"]
            /\ w_data' = [w_data EXCEPT ![w] = Head(data_queue)]
    /\ UNCHANGED <<w_result, alive, result_queue, collect_queue, workerFrame>>

\* lines 175-177: data = data_queue.get() waits for an item; None ends the loop
WorkerGet(w) ==
    /\ w_pc[w] = "get"
    /\ data_queue # <<>>
    /\ data_queue' = Tail(data_queue)
    /\ IF Head(data_queue).none
       THEN w_pc' = [w_pc EXCEPT ![w] = "done"] /\ UNCHANGED w_data
       ELSE /\ w_pc' = [w_pc EXCEPT ![w] = "filter"]
            /\ w_data' = [w_data EXCEPT ![w] = Head(data_queue)]
    /\ UNCHANGED <<w_result, alive, result_queue, collect_queue, workerFrame>>

\* Faulty variant of WorkerPut: a worker that has put its result sets the
\* alive flag to true.
WorkerPutRevive(w) ==
    /\ w_pc[w] = "put"
    /\ Len(result_queue) < MaxQueue
    /\ result_queue' = Append(result_queue, w_result[w])
    /\ w_pc' = [w_pc EXCEPT ![w] = "loop"]
    /\ alive' = TRUE
    /\ UNCHANGED <<w_data, w_result, data_queue, collect_queue, workerFrame>>

\* line 187: result_queue.put(result) waits for room
WorkerPut(w) ==
    /\ w_pc[w] = "put"
    /\ Len(result_queue) < MaxQueue
    /\ result_queue' = Append(result_queue, w_result[w])
    /\ w_pc' = [w_pc EXCEPT ![w] = "loop"]
    /\ UNCHANGED <<w_data, w_result, alive, data_queue, collect_queue, workerFrame>>

-----------------------------------------------------------------------------
(* DefineClones.py: collectQueue *)

\* lines 349-381: open the output files
CollectorOpen ==
    /\ c_pc = "open"
    /\ writers' = [pass |-> TRUE, fail |-> failed]
    /\ c_pc' = "loop"
    /\ UNCHANGED <<counts, pass_out, fail_out, alive, queueVars, collectorFrame>>

\* line 388: while alive.value; the else branch returns without a summary
CollectorLoop ==
    /\ c_pc = "loop"
    /\ c_pc' = IF alive THEN "empty" ELSE "aborted"
    /\ UNCHANGED <<counts, pass_out, fail_out, writers, alive, queueVars, collectorFrame>>

\* Faulty variant of WriteClones: the counter is stepped once per result, so
\* every clone of a result is written with the same identifier.
RECURSIVE WriteClonesOnce(_, _, _, _)
WriteClonesOnce(gid, results, n, clone_count) ==
    IF n > Len(results) THEN <<>>
    ELSE [i \in 1..Len(results[n].v) |->
            [rec |-> results[n].v[i], clone |-> clone_count + 1,
             group |-> gid, label |-> results[n].k]]
         \o WriteClonesOnce(gid, results, n + 1, clone_count)

\* lines 402-408: the records of the clones, numbered from clone_count + 1
RECURSIVE WriteClones(_, _, _, _)
WriteClones(gid, results, n, clone_count) ==
    IF n > Len(results) THEN <<>>
    ELSE [i \in 1..Len(results[n].v) |->
            [rec |-> results[n].v[i], clone |-> clone_count + 1,
             group |-> gid, label |-> results[n].k]]
         \o WriteClones(gid, results, n + 1, clone_count + 1)

\* Faulty variant of CollectResult: the records of the fail file are given
\* the clone identifier 0 before they are written.
CollectResultTagged(result) ==
    LET Tag(recs) == [i \in 1..Len(recs) |->
                        [sequence_id |-> recs[i].sequence_id, v_call |-> recs[i].v_call,
                         j_call |-> recs[i].j_call, junction |-> recs[i].junction,
                         ann |-> recs[i].ann, clone |-> 0]]
    IN  IF result.valid
        THEN /\ pass_out' = pass_out \o WriteClones(result.id, result.results, 1, counts.clone_count)
             /\ fail_out' = IF failed /\ result.data_fail # None
                             THEN fail_out \o Tag(result.data_fail) ELSE fail_out
             /\ counts' = [rec_count |-> counts.rec_count + Len(result.data),
                            clone_count |-> counts.clone_count + Len(result.results),
                            pass_count |-> counts.pass_count + Len(Chain(DValues(result.results))),
                            fail_count |-> counts.fail_count + Len(result.data_fail)]
        ELSE /\ pass_out' = pass_out
             /\ fail_out' = IF failed THEN fail_out \o Tag(result.data) ELSE fail_out
             /\ counts' = [counts EXCEPT !.rec_count = @ + Len(result.data),
                                          !.fail_count = @ + Len(result.data)]

\* lines 395-422: count and write one result
CollectResult(result) ==
    IF result.valid
    THEN /\ pass_out' = pass_out \o WriteClones(result.id, result.results, 1, counts.clone_count)
         /\ fail_out' = IF failed /\ result.data_fail # None
                         THEN fail_out \o result.data_fail ELSE fail_out
         /\ counts' = [rec_count |-> counts.rec_count + Len(result.data),
                        clone_count |-> counts.clone_count + Len(result.results),
                        pass_count |-> counts.pass_count + Len(Chain(DValues(result.results))),
                        fail_count |-> counts.fail_count + Len(result.data_fail)]
    ELSE /\ pass_out' = pass_out
         /\ fail_out' = IF failed THEN fail_out \o result.data ELSE fail_out
         /\ counts' = [counts EXCEPT !.rec_count = @ + Len(result.data),
                                      !.fail_count = @ + Len(result.data)]

\* lines 390-393: skip an empty queue, else take a result; None ends the loop
CollectorGet ==
    /\ c_pc = "empty"
    /\ IF result_queue = <<>>
       THEN c_pc' = "loop" /\ UNCHANGED <<counts, pass_out, fail_out, result_queue>>
       ELSE /\ result_queue' = Tail(result_queue)
            /\ IF Head(result_queue).none
               THEN c_pc' = "summary" /\ UNCHANGED <<counts, pass_out, fail_out>>
               ELSE c_pc' = "loop" /\ CollectResult(Head(result_queue))
    /\ UNCHANGED <<writers, alive, data_queue, collect_queue, collectorFrame>>

\* lines 354-358: the pass file, named by its out_label
pass_handle == "clone-pass"

\* lines 362-371: the fail file, opened only when failed output is requested
fail_handle == IF failed THEN "clone-fail" ELSE None

\* Faulty variant of out_files: the fail file is listed when it was opened.
out_files_both == IF failed THEN <<pass_handle, fail_handle>> ELSE <<pass_handle>>

\* line 443: 'out_files': [pass_handle.name]
out_files == <<pass_handle>>

\* lines 428-444: close the files and put the summary on collect_queue
CollectorSummary ==
    /\ c_pc = "summary"
    /\ collect_queue' = Append(collect_queue,
            [CLONES |-> counts.clone_count, RECORDS |-> counts.rec_count,
             PASS |-> counts.pass_count, FAIL |-> counts.fail_count,
             out_files |-> out_files])
    /\ c_pc' = "done"
    /\ UNCHANGED <<counts, pass_out, fail_out, writers, alive, data_queue, result_queue, collectorFrame>>

-----------------------------------------------------------------------------
(* presto manageProcesses, called at DefineClones.py lines 538-540 *)

Ended(pc) == pc \in {"done", "aborted", "raised"}

\* feeder.join(), then one sentinel per worker on the work queue
ManagerSentinel ==
    /\ m_pc = "feeder"
    /\ Ended(f_pc)
    /\ m_sent < NProc
    /\ Len(data_queue) < MaxQueue
    /\ data_queue' = Append(data_queue, NoItem)
    /\ m_sent' = m_sent + 1
    /\ UNCHANGED <<m_pc, result_queue, collect_queue, managerFrame>>

\* the workers' join(), then the sentinel on the result queue
ManagerWorkers ==
    /\ m_pc = "feeder"
    /\ m_sent = NProc
    /\ \A w \in Workers : Ended(w_pc[w])
    /\ Len(result_queue) < MaxQueue
    /\ result_queue' = Append(result_queue, NoItem)
    /\ m_pc' = "collector"
    /\ UNCHANGED <<m_sent, data_queue, collect_queue, managerFrame>>

\* collector.join()
ManagerCollector ==
    /\ m_pc = "collector"
    /\ Ended(c_pc)
    /\ m_pc' = "done"
    /\ UNCHANGED <<m_sent, queueVars, managerFrame>>

-----------------------------------------------------------------------------
(* defineClones: the whole pipeline *)

\* DefineClones.py lines 644-689, the script: parse_args accepts only the
\* names of choices_distance_model, lines 669-673 exit on a name without a
\* matrix and otherwise hand the matrix to defineClones
Main ==
    /\ m_pc = "main"
    /\ IF model \in choices_distance_model /\ model \in distance_models
       THEN dist_mat' = <<model>> /\ m_pc' = "defineClones"
       ELSE dist_mat' = dist_mat /\ m_pc' = "exit"
    /\ UNCHANGED <<args, groupVars, workVars, alive, queueVars, group_iter, f_pc,
                   collectVars, m_sent>>

\* defineClones lines 482-540: no check of clone_args; manageProcesses starts
\* the feeder, the workers and the collector
ManagerStart ==
    /\ m_pc = "defineClones"
    /\ m_pc' = "feeder"
    /\ f_pc' = "open" /\ c_pc' = "open"
    /\ w_pc' = [w \in Workers |-> "loop"]
    /\ UNCHANGED <<params, groupVars, w_data, w_result, alive, queueVars, group_iter,
                   counts, pass_out, fail_out, writers, m_sent>>

Init ==
    /\ db \in UNION {[1..n -> PipeRows] : n \in 1..MaxFileRecs}
    /\ mode = "gene"
    /\ action = "set"
    /\ group_fields = None
    /\ max_missing = default_max_missing
    /\ seq_field = default_seq_field
    /\ distance = default_distance
    /\ linkage = default_linkage
    /\ failed \in BOOLEAN
    /\ model \in ModelNames
    /\ dist_mat = None
    /\ clone_index = <<>>
    /\ rec_count_g = 0
    /\ group_dict = [done |-> FALSE, d |-> <<>>]
    /\ w_data = [w \in Workers |-> NoItem]
    /\ w_result = [w \in Workers |-> NoItem]
    /\ w_pc = [w \in Workers |-> "new"]
    /\ alive = TRUE
    /\ data_queue = <<>> /\ result_queue = <<>> /\ collect_queue = <<>>
    /\ group_iter = 0
    /\ f_pc = "new" /\ c_pc = "new" /\ m_sent = 0
    /\ m_pc \in {"main", "defineClones"}
    /\ counts = [rec_count |-> 0, clone_count |-> 0, pass_count |-> 0, fail_count |-> 0]
    /\ pass_out = <<>> /\ fail_out = <<>>
    /\ writers = [pass |-> FALSE, fail |-> FALSE]

Next ==
    \/ Main
    \/ ManagerStart
    \/ FeederOpen
    \/ FeederLoop
    \/ FeederNext
    \/ \E w \in Workers : WorkerLoop(w)
    \/ \E w \in Workers : WorkerEmpty(w)
    \/ \E w \in Workers : WorkerGet(w)
    \/ \E w \in Workers : WorkerFilter(w)
    \/ \E w \in Workers : WorkerProcess(w)
    \/ \E w \in Workers : WorkerPut(w)
    \/ CollectorOpen
    \/ CollectorLoop
    \/ CollectorGet
    \/ CollectorSummary
    \/ ManagerSentinel
    \/ ManagerWorkers
    \/ ManagerCollector

Spec == Init /\ [][Next]_vars

\* The rows of the files of three records: two keyed groups and a row without
\* a V call
UnwindRows ==
    {Row(<<1>>, <<1>>, <<"A">>, None),
     Row(<<3>>, <<1>>, <<"A">>, None),
     Row(<<>>, <<1>>, <<"A">>, None)}

\* The pipeline on files of MaxRecs records, which can hold three groups
InitUnwind ==
    /\ db \in [1..MaxRecs -> UnwindRows]
    /\ mode = "gene"
    /\ action = "set"
    /\ group_fields = None
    /\ max_missing = default_max_missing
    /\ seq_field = default_seq_field
    /\ distance = default_distance
    /\ linkage = default_linkage
    /\ failed = FALSE
    /\ model = default_model
    /\ dist_mat = None
    /\ clone_index = <<>>
    /\ rec_count_g = 0
    /\ group_dict = [done |-> FALSE, d |-> <<>>]
    /\ w_data = [w \in Workers |-> NoItem]
    /\ w_result = [w \in Workers |-> NoItem]
    /\ w_pc = [w \in Workers |-> "new"]
    /\ alive = TRUE
    /\ data_queue = <<>> /\ result_queue = <<>> /\ collect_queue = <<>>
    /\ group_iter = 0
    /\ f_pc = "new" /\ c_pc = "new" /\ m_sent = 0
    /\ m_pc \in {"main", "defineClones"}
    /\ counts = [rec_count |-> 0, clone_count |-> 0, pass_count |-> 0, fail_count |-> 0]
    /\ pass_out = <<>> /\ fail_out = <<>>
    /\ writers = [pass |-> FALSE, fail |-> FALSE]

SpecUnwind == InitUnwind /\ [][Next]_vars

-----------------------------------------------------------------------------
(* Multiprocessing.py: collectDbQueue, the collector of the workers that
   process records or lists of records without cloning *)

\* A DbResult whose data is one Receptor (single) or a list of Receptors;
\* recs holds the Receptor(s) either way.  A valid result carries the
\* processed data as its results.
DbItem(key, single, recs, valid) ==
    [none |-> FALSE, id |-> key, single |-> single, data |-> recs,
     results |-> IF valid THEN recs ELSE None, valid |-> valid]

\* DbResult.data_count (lines 87-95)
data_count(result) == IF result.single THEN 1 ELSE Len(result.data)

\* lines 232-250: count the input, open the log, reset handles and counters
DbCollectorOpen ==
    /\ c_pc = "open"
    /\ writers' = [pass |-> FALSE, fail |-> FALSE]
    /\ counts' = [set_count |-> 0, rec_count |-> 0, pass_count |-> 0, fail_count |-> 0]
    /\ c_pc' = "loop"
    /\ UNCHANGED <<pass_out, fail_out, alive, queueVars, collectorFrame>>

\* line 253: while alive.value; the else branch returns (lines 293-296)
DbCollectorLoop ==
    /\ c_pc = "loop"
    /\ c_pc' = IF alive THEN "empty" ELSE "aborted"
    /\ UNCHANGED <<counts, pass_out, fail_out, writers, alive, queueVars, collectorFrame>>

\* line 290 is reached: a failed result with fail_writer set whose data is
\* one Receptor; pass_writer.writeReceptor raises when pass_writer is None
DbFailWithPassWriter(result) == ~result.valid /\ failed /\ result.single

\* lines 262-292: count and write one result; an exception goes to the
\* handler of lines 315-317
DbCollectResult(result) ==
    IF result.valid
    THEN /\ counts' = [set_count |-> counts.set_count + 1,
                        rec_count |-> counts.rec_count + data_count(result),
                        pass_count |-> counts.pass_count + data_count(result),
                        fail_count |-> counts.fail_count]
         /\ writers' = [writers EXCEPT !.pass = TRUE]
         /\ pass_out' = pass_out \o result.results
         /\ fail_out' = fail_out
         /\ c_pc' = "loop" /\ alive' = alive
    ELSE /\ counts' = [set_count |-> counts.set_count + 1,
                        rec_count |-> counts.rec_count + data_count(result),
                        pass_count |-> counts.pass_count,
                        fail_count |-> counts.fail_count + data_count(result)]
         /\ writers' = [writers EXCEPT !.fail = writers.fail \/ failed]
         /\ IF DbFailWithPassWriter(result)
            THEN IF writers.pass
                 THEN /\ pass_out' = pass_out \o result.data
                      /\ fail_out' = fail_out
                      /\ c_pc' = "loop" /\ alive' = alive
                 ELSE /\ UNCHANGED <<pass_out, fail_out>>
                      /\ c_pc' = "raised" /\ alive' = FALSE
            ELSE /\ pass_out' = pass_out
                 /\ fail_out' = IF failed THEN fail_out \o result.data ELSE fail_out
                 /\ c_pc' = "loop" /\ alive' = alive

\* lines 255-258: skip an empty queue, else take a result; None ends the loop
DbCollectorGet ==
    /\ c_pc = "empty"
    /\ IF result_queue = <<>>
       THEN c_pc' = "loop" /\ UNCHANGED <<counts, pass_out, fail_out, writers, result_queue, alive>>
       ELSE /\ result_queue' = Tail(result_queue)
            /\ IF Head(result_queue).none
               THEN c_pc' = "summary" /\ UNCHANGED <<counts, pass_out, fail_out, writers, alive>>
               ELSE DbCollectResult(Head(result_queue))
    /\ UNCHANGED <<data_queue, collect_queue, collectorFrame>>

\* lines 298-314: build the log and put the summary on collect_queue; line
\* 308 reads pass_handle.name, which raises when no pass file was opened
DbCollectorSummary ==
    /\ c_pc = "summary"
    /\ IF writers.pass
       THEN /\ collect_queue' = Append(collect_queue,
                    [RECORDS |-> counts.rec_count, GROUPS |-> counts.set_count,
                     PASS |-> counts.pass_count, FAIL |-> counts.fail_count,
                     out_files |-> <<"pass">>])
            /\ c_pc' = "done" /\ alive' = alive
       ELSE /\ collect_queue' = collect_queue
            /\ c_pc' = "raised" /\ alive' = FALSE
    /\ UNCHANGED <<counts, pass_out, fail_out, writers, data_queue, result_queue, collectorFrame>>

\* A sibling process faults and clears the shared flag (lines 147-149 and
\* 192-195)
SiblingFault ==
    /\ alive /\ ~Ended(c_pc)
    /\ alive' = FALSE
    /\ UNCHANGED <<params, groupVars, workVars, pipeVars>>

\* The results on the queue: result i is made of row i alone, as one
\* Receptor, or of the rows up to i as a list
ResultsOf(recs) ==
    {q \in [1..Len(recs) -> {DbItem(<<i>>, sg, (IF sg THEN <<recs[i]>> ELSE SubSeq(recs, 1, i)), vd) :
                                i \in 1..Len(recs), sg \in BOOLEAN, vd \in BOOLEAN}] :
        \A i \in 1..Len(recs) : q[i].id = <<i>>}

\* collectDbQueue started with the workers' results and the sentinel on the
\* result queue
InitCollectDb ==
    /\ db \in UNION {[1..n -> UnwindRows] : n \in 0..MaxFileRecs}
    /\ mode = "gene"
    /\ action = "set"
    /\ group_fields = None
    /\ max_missing = default_max_missing
    /\ seq_field = default_seq_field
    /\ distance = default_distance
    /\ linkage = default_linkage
    /\ failed \in BOOLEAN
    /\ model = default_model /\ dist_mat = None
    /\ clone_index = <<>>
    /\ rec_count_g = 0
    /\ group_dict = [done |-> FALSE, d |-> <<>>]
    /\ w_data = [w \in Workers |-> NoItem]
    /\ w_result = [w \in Workers |-> NoItem]
    /\ w_pc = [w \in Workers |-> "done"]
    /\ alive = TRUE
    /\ data_queue = <<>> /\ collect_queue = <<>>
    /\ \E q \in ResultsOf(Reader(db)) : result_queue = q \o <<NoItem>>
    /\ group_iter = 0
    /\ f_pc = "idle" /\ c_pc = "open" /\ m_pc = "idle" /\ m_sent = 0
    /\ counts = [set_count |-> 0, rec_count |-> 0, pass_count |-> 0, fail_count |-> 0]
    /\ pass_out = <<>> /\ fail_out = <<>>
    /\ writers = [pass |-> FALSE, fail |-> FALSE]

NextCollectDb ==
    \/ DbCollectorOpen
    \/ DbCollectorLoop
    \/ DbCollectorGet
    \/ DbCollectorSummary
    \/ SiblingFault

SpecCollectDb == InitCollectDb /\ [][NextCollectDb]_vars

-----------------------------------------------------------------------------
(* Properties of the pipeline *)

\* C1: whenever the collector has reached the sentinel and posted its
\* summary, PASS + FAIL = RECORDS = the number of records read by the feeder.
C1_Conservation ==
    collect_queue # <<>> =>
        /\ collect_queue[1].PASS + collect_queue[1].FAIL = collect_queue[1].RECORDS
        /\ collect_queue[1].RECORDS = Len(db)

SameClone(x, y) == x.group = y.group /\ x.label = y.label

\* C2: clone identifiers come from one counter starting at 1 and stepping
\* once per clone: the records of one clone share an identifier, records of
\* different clones never do, and identifiers never decrease in write order.
C2_CloneIds ==
    /\ {pass_out[i].clone : i \in 1..Len(pass_out)} = 1..counts.clone_count
    /\ \A i, j \in 1..Len(pass_out) :
          /\ SameClone(pass_out[i], pass_out[j]) <=> pass_out[i].clone = pass_out[j].clone
          /\ i <= j => pass_out[i].clone <= pass_out[j].clone

\* Witness of C2: two clones written, numbered 1 and 2.
C2_Witness ==
    /\ Len(pass_out) = 2
    /\ pass_out[1].clone = 1 /\ pass_out[2].clone = 2
    /\ ~SameClone(pass_out[1], pass_out[2])

\* C8: a worker that receives the null-key group raises no fault, and all
\* records of that group are written to the fail output.
C8_NullGroupToFail ==
    \A w \in Workers :
        (~w_data[w].none /\ w_data[w].id = None) => w_pc[w] # "raised"

AllEnded == Ended(f_pc) /\ Ended(c_pc) /\ \A w \in Workers : Ended(w_pc[w])

Written(out, id) == \E i \in 1..Len(out) : out[i].sequence_id = id
WrittenPass(id) == \E i \in 1..Len(pass_out) : pass_out[i].rec.sequence_id = id

\* C10: with the fail file requested, once feeder, workers and collector
\* have ended, every record of a keyed group that the quality filter
\* rejects is in the fail output and every other record of a keyed group is
\* in the pass output, also when a whole group was rejected.
C10_RejectedToFail ==
    (failed /\ AllEnded) =>
        \A a \in 1..Len(db) :
            KeyPresent(KeyOfRow(a)) =>
                IF Len(Reader(db)[a].junction) > 0
                   /\ Cardinality({p \in 1..Len(Reader(db)[a].junction) :
                            Reader(db)[a].junction[p] \notin {"A", "C", "G", "T"}}) <= max_missing
                THEN WrittenPass(a) /\ ~Written(fail_out, a)
                ELSE Written(fail_out, a) /\ ~WrittenPass(a)

\* C16: once the filter or the clone function has raised inside a worker,
\* alive is false and the collector never puts a summary on the collect queue.
C16_FaultNoSummary ==
    (\E w \in Workers : w_pc[w] = "raised") => (~alive /\ collect_queue = <<>>)

\* What the worker steps make of the group item it (key k, records v)
ResultOf(it) ==
    distanceClones(filterMissing(DbData(it.k, it.v), seq_field, max_missing), seq_field,
                   distance, default_norm, default_sym, linkage)

\* Records a and b are in one clone of one keyed group of the grouping g
TogetherIn(g, a, b) ==
    \E n \in 1..Len(g) : g[n].k # None /\ Together(ResultOf(g[n]), a, b)

\* The records of the keyed groups of g that end up in a clone
ClonedIn(g) ==
    UNION {IF g[n].k # None /\ ResultOf(g[n]).valid
           THEN ItemsOf(Chain(DValues(ResultOf(g[n]).results))) ELSE {} : n \in 1..Len(g)}

\* C14: which records share a clone identifier is fixed by the input and the
\* parameters: in every run two written records have the same identifier iff
\* grouping, filter and clustering put them in one clone, and a run that
\* posts its summary has written every record that belongs to a clone.
C14_MembershipDeterministic ==
    \A g \in groupByGene(Reader(db), mode, action, group_fields) :
        /\ \A i, j \in 1..Len(pass_out) :
              (pass_out[i].clone = pass_out[j].clone)
                  <=> TogetherIn(g, pass_out[i].rec, pass_out[j].rec)
        /\ collect_queue # <<>> =>
              {pass_out[i].rec : i \in 1..Len(pass_out)} = ClonedIn(g)

\* The records of the items (no sentinels) waiting on a queue
QueuedRecs(q) == Chain([n \in 1..Len(q) |-> IF q[n].none THEN <<>> ELSE q[n].data])

\* The records of the groups the feeder has pushed
PushedRecs == Chain([n \in 1..group_iter |-> group_dict.d[n].v])

\* A worker holds a group it has taken and not yet turned into a queued result
Holding(w) == w_pc[w] \in {"filter", "process", "put"}

HeldRecs == Chain([w \in Workers |-> IF Holding(w) THEN w_data[w].data ELSE <<>>])

\* C15: a pushed group is taken by one worker only and gives exactly one
\* result (its records are in the work queue, with the one worker holding
\* it, in a queued result or counted by the collector), and the pass records
\* of a group are written as one contiguous block.
C15_OneWorkerOneResult ==
    /\ \A v, w \in Workers :
          (v # w /\ Holding(v) /\ Holding(w)) => w_data[v].id # w_data[w].id
    /\ Len(PushedRecs) = Len(QueuedRecs(data_queue)) + Len(HeldRecs)
                            + Len(QueuedRecs(result_queue)) + counts.rec_count
    /\ \A i, j, k \in 1..Len(pass_out) :
          (i < j /\ j < k /\ pass_out[i].group = pass_out[k].group)
              => pass_out[j].group = pass_out[i].group

\* The file names in the list a posted summary carries.
Listed(i) == {collect_queue[i].out_files[n] : n \in 1..Len(collect_queue[i].out_files)}

\* C18 as stated: the list of output files that the collector posts, which
\* defineClones returns (line 546), contains the pass file and, when failed
\* output was requested, the fail file as well.
C18_OutFilesListFail ==
    \A i \in 1..Len(collect_queue) :
        /\ pass_handle \in Listed(i)
        /\ failed => fail_handle \in Listed(i)

\* C18 as the code has it: the list of output files that the collector posts,
\* which defineClones returns, holds the pass file and nothing else, whether or
\* not failed-record output was requested.
C18_OutFilesPassOnly ==
    \A i \in 1..Len(collect_queue) : collect_queue[i].out_files = <<pass_handle>>

\* A run with failed output requested that wrote a record to the fail file and
\* posted its summary.
C18_Witness ==
    /\ failed /\ fail_out # <<>>
    /\ collect_queue # <<>>
    /\ collect_queue[1].out_files = <<"clone-pass">>

\* C17: when the model name is in no registry, no worker has filtered or
\* clustered a group and no record has been written to the pass or the fail
\* output, in every state of the run.
C17_UnknownModelNoProcessing ==
    model \notin distance_models =>
        /\ \A w \in Workers : w_result[w].none /\ w_pc[w] \notin {"process", "put"}
        /\ pass_out = <<>> /\ fail_out = <<>>

\* Row a is in a keyed group and its target sequence has zero length; the
\* junction length is part of the key, so its whole group is such rows
ZeroLength(a) == KeyPresent(KeyOfRow(a)) /\ Len(Reader(db)[a].junction) = 0

C13_UnwindTerminates ==
    (~alive /\ ~ENABLED Next) => AllEnded

\* The names a call string holds at the specificity of the run
NamesIn(call) == ToSet(RegexFind(call, mode))

\* The first name of a call string in string order
FirstFound(call) == RegexFind(call, mode)[1]

\* t is the sorted tuple of the distinct elements of S
IsSortedSetOf(t, S) ==
    /\ ToSet(t) = S /\ Len(t) = Cardinality(S)
    /\ \A p, q \in 1..Len(t) : p < q => t[p] < t[q]

\* What the claim requires of the value extracted from a call string, with
\* `least` telling whether 'first' means the least name or the first found
Extracted(call, val, least) ==
    IF NamesIn(call) = {} THEN val = None
    ELSE IF action = "first"
    THEN val = <<(IF least THEN MinOf(NamesIn(call)) ELSE FirstFound(call))>>
    ELSE IsSortedSetOf(val, NamesIn(call))

\* Under the first policy the index entry that holds the record of row a
\* is filed under the V and J values of the row's key
FiledUnderKey(a) ==
    (action = "first" /\ KeyPresent(KeyOfRow(a))) =>
        \E i \in 1..Len(clone_index) :
            /\ a \in RecIds(clone_index[i].v)
            /\ clone_index[i].k # None
            /\ SubSeq(clone_index[i].k, 1, 2) = SubSeq(KeyOfRow(a), 1, 2)

\* C22 as stated: for every row consumed, under the first policy the V and J
\* values of its key are the lexicographically first of the names in the
\* call string, under the set policy the sorted tuple of the distinct names,
\* and a call string without a name gives None under both.
C22_FirstIsLeast ==
    \A a \in 1..rec_count_g :
        /\ Extracted(db[a].v_call, KeyOfRow(a)[1], TRUE)
        /\ Extracted(db[a].j_call, KeyOfRow(a)[2], TRUE)
        /\ FiledUnderKey(a)

\* C22 as the code has it: under the first policy the value is the name
\* found first in the call string, in string order; the set policy and the
\* call string without a name are as stated.
C22_FirstIsFirstFound ==
    \A a \in 1..rec_count_g :
        /\ Extracted(db[a].v_call, KeyOfRow(a)[1], FALSE)
        /\ Extracted(db[a].j_call, KeyOfRow(a)[2], FALSE)
        /\ FiledUnderKey(a)

\* Witness of C22: under the first policy a consumed row whose V call names
\* a greater name before a lesser one is filed under the greater one.
C22_Witness ==
    /\ action = "first" /\ mode = "allele" /\ rec_count_g >= 1
    /\ Len(db[1].v_call) = 2 /\ db[1].v_call[1] > db[1].v_call[2]
    /\ KeyPresent(KeyOfRow(1))
    /\ clone_index[1].k[1] = <<db[1].v_call[1]>>

\* What a step may do to worker w under the order take, filter, separate, emit
WorkerInOrder(w) ==
    /\ (w_pc[w] # "filter" /\ w_pc'[w] = "filter") =>
            /\ w_pc[w] = "get" /\ data_queue # <<>> /\ ~Head(data_queue).none
            /\ w_data'[w] = Head(data_queue) /\ data_queue' = Tail(data_queue)
    /\ (w_pc[w] # "process" /\ w_pc'[w] = "process") =>
            /\ w_pc[w] = "filter"
            /\ w_data'[w] = w_data[w] /\ w_result'[w].id = w_data[w].id
    /\ (w_pc[w] # "put" /\ w_pc'[w] = "put") =>
            /\ w_pc[w] = "process"
            /\ w_data'[w] = w_data[w] /\ result_queue' = result_queue
    /\ (w_pc[w] = "put" /\ w_pc'[w] # "put") =>
            result_queue' = Append(result_queue, w_result[w])
    /\ (w_pc[w] = "get" /\ w_pc'[w] # "get" /\ Head(data_queue).none) =>
            w_pc'[w] = "done"
    /\ w_pc[w] = "done" => (w_pc'[w] = "done" /\ w_data'[w] = w_data[w])

\* C23: every step keeps each worker in the order take, filter, separate
\* clones, emit: the clone function starts on a group only from the filter's
\* return for that group, the result is put only after the clone function
\* returned, only a worker at its put adds a result to the result queue, and
\* a worker that took the sentinel is done and takes nothing more.
C23_WorkerOrder ==
    [][/\ \A w \in Workers : WorkerInOrder(w)
       /\ (Len(result_queue') > Len(result_queue) /\ ~result_queue'[Len(result_queue')].none)
             => \E w \in Workers : w_pc[w] = "put" /\ w_pc'[w] = "loop"]_vars

\* Witness of C23: a worker has taken a group, filtered it, separated its
\* clones and emitted the result, which the collector has written, and has
\* then taken the sentinel.
C23_Witness ==
    \E w \in Workers :
        /\ w_pc[w] = "done" /\ ~w_data[w].none /\ ~w_result[w].none
        /\ \E i \in 1..Len(pass_out) : pass_out[i].group = w_data[w].id

\* Every record of the list is the Receptor the reader built from its row
AsRead(recs) == \A i \in 1..Len(recs) : recs[i] = Reader(db)[recs[i].sequence_id]

\* The records a DbData or DbResult holds are as read
ItemAsRead(it) ==
    it.none \/ /\ AsRead(it.data)
               /\ "results" \in DOMAIN it =>
                     /\ AsRead(it.data_pass) /\ AsRead(it.data_fail)
                     /\ AsRead(Chain(DValues(it.results)))

\* C24: in every state the records of the returned groups, of the items on
\* the queues and in the workers' hands, and of the fail output are the
\* Receptors as read, with no clone identifier on them; a record of the pass
\* output is the Receptor as read with its clone identifier attached.
C24_OnlyCloneAttached ==
    /\ \A i \in 1..Len(group_dict.d) : AsRead(group_dict.d[i].v)
    /\ \A w \in Workers : ItemAsRead(w_data[w]) /\ ItemAsRead(w_result[w])
    /\ \A i \in 1..Len(data_queue) : ItemAsRead(data_queue[i])
    /\ \A i \in 1..Len(result_queue) : ItemAsRead(result_queue[i])
    /\ AsRead(fail_out)
    /\ \A i \in 1..Len(fail_out) : "clone" \notin DOMAIN fail_out[i]
    /\ \A i \in 1..Len(pass_out) :
          /\ pass_out[i].rec = Reader(db)[pass_out[i].rec.sequence_id]
          /\ pass_out[i].clone \in 1..counts.clone_count

\* Witness of C24: a run that has written a record to the fail file and a
\* record with its clone identifier to the pass file, and has ended.
C24_Witness ==
    /\ failed /\ c_pc = "done"
    /\ fail_out # <<>> /\ pass_out # <<>>
    /\ pass_out[1].clone = 1
    /\ fail_out[1] = Reader(db)[fail_out[1].sequence_id]

\* The collector of collectDbQueue takes a result that is not valid
TakesInvalid ==
    /\ c_pc = "empty" /\ result_queue # <<>>
    /\ ~Head(result_queue).none /\ ~Head(result_queue).valid
    /\ result_queue' = Tail(result_queue)

\* C29: every step in which collectDbQueue takes an invalid result leaves
\* the pass output as it was and, when the fail file is requested, appends
\* the result's records to the fail output, for data that is one record and
\* for data that is a list, before and after the first valid result.
C29_InvalidToFailOnly ==
    [][TakesInvalid =>
          /\ pass_out' = pass_out
          /\ failed => fail_out' = fail_out \o Head(result_queue).data]_vars

\* C30: the step collectDbQueue takes after consuming the sentinel puts a
\* summary with PASS + FAIL = RECORDS on the collect queue and leaves the
\* alive flag alone, also when no result was valid and no pass file was
\* opened.
C30_SummaryAfterSentinel ==
    [][(c_pc = "summary" /\ c_pc' # "summary") =>
          /\ c_pc' = "done" /\ alive' = alive
          /\ Len(collect_queue') = Len(collect_queue) + 1
          /\ LET log == collect_queue'[Len(collect_queue')]
             IN  log.PASS + log.FAIL = log.RECORDS /\ log.RECORDS = counts.rec_count]_vars


\* the records of a result's data_pass whose target sequence has length zero
ZeroLengthPassed(result) ==
    {i \in 1..Len(result.data_pass) : Len(Str(getSeq(result.data_pass[i], seq_field))) = 0}

\* C26: a worker that ran filterMissing and then distanceClones holds no None
\* result: every record the filter passed has a non-empty target sequence, the
\* result the worker is about to put is not None, and a None on the result
\* queue is the manager's sentinel, put last once every worker has ended.
C26_NoneOnlySentinel ==
    /\ \A w \in Workers :
          w_pc[w] \in {"process", "put"} =>
             ~w_result[w].none /\ ZeroLengthPassed(w_result[w]) = {}
    /\ \A i \in 1..Len(result_queue) :
          result_queue[i].none =>
             /\ i = Len(result_queue)
             /\ m_pc \in {"collector", "done"}
             /\ \A w \in Workers : Ended(w_pc[w])
    /\ c_pc = "summary" => m_pc \in {"collector", "done"}

\* a worker is about to put the result of a group whose records have a
\* zero-length junction, all of which the filter took out
C26_Witness ==
    \E w \in Workers :
       /\ w_pc[w] = "put"
       /\ ~w_result[w].none
       /\ w_result[w].data_pass = <<>>
       /\ \E i \in 1..Len(w_result[w].data_fail) :
             Len(w_result[w].data_fail[i].junction) = 0


\* C27: a worker that has passed the empty() check and stands at
\* data_queue.get() finds an item on the work queue.
C27_GetNeverWaits ==
    \A w \in Workers : w_pc[w] = "get" => data_queue # <<>>

\* C28: the alive flag starts true and no step sets it back from false to true.
C28_AliveMonotone ==
    (alive = TRUE) /\ [][(alive' = TRUE) => (alive = TRUE)]_vars

\* a process has set alive to false
C28_Witness ==
    /\ ~alive
    /\ \/ \E w \in Workers : w_pc[w] = "raised"
       \/ c_pc = "raised"
       \/ f_pc = "raised"

=============================================================================
